---------------------------- MODULE Spec2Model ----------------------------
(***************************************************************************)
(* Model of player/animation-player.py: the SteadyRate limiter, the        *)
(* AnimationPlayer render loop with its play/stop/loop-around checks,      *)
(* initialize_animation with its layer composition, and main.              *)
(*                                                                         *)
(* The host runtime (SimulationApp, omni.timeline, the stage, the message  *)
(* bus) is the environment.  Its answers are inputs: whether it is still   *)
(* running, the timeline status seen after a render, whether a stage or a  *)
(* layer opens, which load event is popped during a render, and how long   *)
(* the work of a cycle took.                                               *)
(***************************************************************************)
EXTENDS Integers, Sequences, FiniteSets, TLC

(* ------------------------------ bounds -------------------------------- *)

\* Largest last_frame_index a configuration or a load event carries.
MaxFrame == 2

\* Longest work time of one cycle, in clock ticks.
MaxWork == 3

\* Longest list of override-layer paths.
MaxLayers == 3

\* Most close() commands in one run: failed loads are drawn only while the
\* close of line 151 still fits under it.
MaxCloses == 2

\* Clock ticks per second: the resolution of the discrete clock.
TickHz == 120

(* ------------------------- program constants -------------------------- *)

\* AnimationPlayer.RATE_HZ
RATE_HZ == 60

\* The divisor of play_from_start's end time, last_frame_index / 60.
TimecodeBase == 60

(* --------------------------- input domains ---------------------------- *)

\* omni.timeline: is_playing() is "playing", is_stopped() is "stopped";
\* a paused timeline answers False to both.
Status == {"playing", "stopped", "paused"}

Paths == {"a", "b", "c"}

Frames == 0..MaxFrame

Range(q) == {q[i] : i \in 1..Len(q)}

\* The lists of at most n paths, no path twice.
RECURSIVE SeqsUpTo(_)
SeqsUpTo(n) ==
    IF n = 0 THEN {<< >>}
    ELSE LET shorter == SeqsUpTo(n - 1)
         IN  shorter \cup
             UNION {{Append(q, p) : p \in Paths \ Range(q)} :
                        q \in {r \in shorter : Len(r) = n - 1}}

\* layer_paths: None (given = FALSE) or a list of paths.
LayerInputs ==
    {[given |-> FALSE, paths |-> << >>]}
        \cup {[given |-> TRUE, paths |-> q] : q \in SeqsUpTo(MaxLayers)}

\* The sub-layers a freshly opened main scene already has.
BaseLayers == {<< >>, <<"base">>}

(* ------------------------------- state -------------------------------- *)

VARIABLES
    pc,                 \* position in main / run_loop
    time_step_index,    \* AnimationPlayer._time_step_index
    last_frame_index,   \* AnimationPlayer._last_frame_index
    is_reset_pending,   \* run_loop's local flag
    dt,                 \* SteadyRate.dt, in ticks
    last_sleep_end,     \* SteadyRate.last_sleep_end
    now,                \* time.time()
    running,            \* simulation_app.is_running()
    timeline,           \* status of the host timeline
    commit,             \* TRUE: the host applies play() at once; FALSE: at its next update
    end_time,           \* the host timeline's end time, <<numerator, denominator>>
    play_range,         \* the host timeline's <<start_timecode, end_timecode>>
    subLayerPaths,      \* root layer's subLayerPaths of the current stage
    closes,             \* number of close() commands the host received
    cmds,               \* the calls made by the latest step, in order
    ev,                 \* the load the latest step ran, if any
    cyc,                \* what the latest pass through lines 135-148 saw and did
    stop_seen,          \* a stopped timeline has been latched into is_reset_pending
    stop_restarts,      \* restarts by line 140 since the latest latch
    playthrough         \* render calls since the latest restart (counted up to
                        \* MaxFrame + 2), while undisturbed

vars == <<pc, time_step_index, last_frame_index, is_reset_pending, dt, last_sleep_end,
          now, running, timeline, commit, end_time, play_range, subLayerPaths, closes,
          cmds, ev, cyc, stop_seen, stop_restarts, playthrough>>


(* ------------------------- the calls' records ------------------------- *)

\* One call made to the host or to time.sleep: its name and arguments.
Cmd(op, a, b, path) == [op |-> op, a |-> a, b |-> b, path |-> path]

Bit(x) == IF x THEN 1 ELSE 0

NoEv == [kind |-> "none", opened |-> FALSE, given |-> FALSE, paths |-> << >>,
         unresolved |-> {}, base |-> << >>, lfi |-> 0, moved |-> FALSE]

\* run0: what is_running() answered at line 130 for the cycle;
\* over0: the frame index was above last_frame_index when the cycle began;
\* ev_play: the cycle began above last_frame_index (over0) and a load event
\* of the cycle issued play_from_start; the other
\* fields are the values line 135 started from and what lines 135-148 did.
NoCyc == [ran |-> FALSE, run0 |-> FALSE, over0 |-> FALSE, ev_play |-> FALSE, pending0 |-> FALSE,
          tsi0 |-> 0, lfi0 |-> 0, status0 |-> "stopped",
          n_reset |-> 0, n_loop |-> 0, inc |-> FALSE, work |-> 0, slept |-> 0,
          elapsed |-> 0, interval |-> 0, from |-> "void", len |-> 0,
          closed0 |-> FALSE]

\* No playthrough is being counted: nothing has restarted yet, or a load event,
\* a timeline that was not playing or a restart of line 140 came in between.
NoPlaythrough == [from |-> "void", renders |-> 0]

\* The part of the state the calls below read and write, as one record.
Cur == [tsi |-> time_step_index, lfi |-> last_frame_index, timeline |-> timeline,
        end_time |-> end_time, range |-> play_range, running |-> running,
        closes |-> closes, layers |-> subLayerPaths, cmds |-> << >>]

(* ----------------------------- SteadyRate ----------------------------- *)

\* SteadyRate.__init__ at time t: dt = 1.0 / rate_hz, in ticks.
SteadyRateInit(rate_hz, t) == [dt |-> TickHz \div rate_hz, last_sleep_end |-> t]

\* sleep with line 87 inside the if: last_sleep_end moves only after a sleep.
SteadyRateSleep_lazy(rate, t) ==
    LET work_elapse == t - rate.last_sleep_end
        sleep_time  == rate.dt - work_elapse
        slept       == IF sleep_time > 0 THEN sleep_time ELSE 0
        wake        == t + slept
    IN  [rate |-> IF sleep_time > 0 THEN [rate EXCEPT !.last_sleep_end = wake] ELSE rate,
         wake |-> wake, slept |-> slept, work_elapse |-> work_elapse]

\* A limiter on a fixed cadence: last_sleep_end advances by dt per call, so a
\* late cycle is made up for by shorter sleeps afterwards.
SteadyRateSleep_catch_up(rate, t) ==
    LET work_elapse == t - rate.last_sleep_end
        sleep_time  == rate.dt - work_elapse
        slept       == IF sleep_time > 0 THEN sleep_time ELSE 0
        wake        == t + slept
    IN  [rate |-> [rate EXCEPT !.last_sleep_end = @ + rate.dt], wake |-> wake,
         slept |-> slept, work_elapse |-> work_elapse]

\* SteadyRate.sleep called at time t: the limiter afterwards, the time the call
\* returns, and how long time.sleep blocked.
SteadyRateSleep(rate, t) ==
    LET work_elapse == t - rate.last_sleep_end
        sleep_time  == rate.dt - work_elapse
        slept       == IF sleep_time > 0 THEN sleep_time ELSE 0
        wake        == t + slept
    IN  [rate |-> [rate EXCEPT !.last_sleep_end = wake], wake |-> wake, slept |-> slept,
         work_elapse |-> work_elapse]

(* -------------------------- AnimationPlayer --------------------------- *)

\* timeline.play(): a host that commits at once is playing when the call
\* returns; one that defers applies it at its next update (during render).
HostPlay(status) == IF commit THEN "playing" ELSE status

\* play_from_start with its two timeline calls in the other order.
play_from_start_swapped(s) ==
    [s EXCEPT !.cmds = @ \o << Cmd("play", 0, s.lfi, ""),
                               Cmd("set_end_time", s.lfi, TimecodeBase, "") >>,
              !.end_time = <<s.lfi, TimecodeBase>>,
              !.range = <<0, s.lfi>>,
              !.timeline = HostPlay(@),
              !.tsi = 0]

\* play_from_start without line 156: the frame index is left as it is.
play_from_start_no_reset(s) ==
    [s EXCEPT !.cmds = @ \o << Cmd("set_end_time", s.lfi, TimecodeBase, ""),
                               Cmd("play", 0, s.lfi, "") >>,
              !.end_time = <<s.lfi, TimecodeBase>>,
              !.range = <<0, s.lfi>>,
              !.timeline = HostPlay(@)]

\* play_from_start asking the timeline to play from the current frame index.
play_from_start_resume(s) ==
    [s EXCEPT !.cmds = @ \o << Cmd("set_end_time", s.lfi, TimecodeBase, ""),
                               Cmd("play", s.tsi, s.lfi, "") >>,
              !.end_time = <<s.lfi, TimecodeBase>>,
              !.range = <<s.tsi, s.lfi>>,
              !.timeline = HostPlay(@),
              !.tsi = 0]

\* AnimationPlayer.play_from_start
play_from_start(s) ==
    [s EXCEPT !.cmds = @ \o << Cmd("set_end_time", s.lfi, TimecodeBase, ""),
                               Cmd("play", 0, s.lfi, "") >>,
              !.end_time = <<s.lfi, TimecodeBase>>,
              !.range = <<0, s.lfi>>,
              !.timeline = HostPlay(@),
              !.tsi = 0]

\* simulation_app.close(): the host stops running.
HostClose(s) ==
    [s EXCEPT !.cmds = Append(@, Cmd("close", Bit(s.running), 0, "")),
              !.running = FALSE,
              !.closes = @ + 1]

(* ------------------------ initialize_animation ------------------------ *)

Reverse(q) == [i \in 1..Len(q) |-> q[Len(q) + 1 - i]]

\* insert_layer(layer_path) with layer_index_position = 0.
insert_layer(s, layer_path, unresolved) ==
    IF layer_path \in unresolved
    THEN [s EXCEPT !.cmds = Append(@, Cmd("find_or_open", 0, 0, layer_path))]
    ELSE [s EXCEPT !.cmds = @ \o << Cmd("find_or_open", 1, 0, layer_path),
                                    Cmd("insert", 0, 0, layer_path) >>,
                   !.layers = <<layer_path>> \o @]

\* for layer_path in layer_paths: insert_layer(layer_path)
RECURSIVE InsertEach(_, _, _)
InsertEach(s, layer_paths, unresolved) ==
    IF layer_paths = << >> THEN s
    ELSE InsertEach(insert_layer(s, Head(layer_paths), unresolved),
                    Tail(layer_paths), unresolved)

\* initialize_animation without line 173: the layers are inserted in input order.
initialize_animation_no_reverse(s, opened, base, lp, unresolved, lfi) ==
    IF ~opened
    THEN HostClose([s EXCEPT !.cmds = Append(@, Cmd("open_stage", 0, 0, ""))])
    ELSE LET s1 == [s EXCEPT !.cmds = Append(@, Cmd("open_stage", 1, 0, "")),
                             !.layers = base]
             s2 == IF lp.given THEN InsertEach(s1, lp.paths, unresolved) ELSE s1
             s3 == [s2 EXCEPT !.lfi = lfi]
         IN  play_from_start(s3)

\* initialize_animation with lines 177 and 178 in the other order: the restart
\* runs before the terminal frame is updated.
initialize_animation_play_first(s, opened, base, lp, unresolved, lfi) ==
    IF ~opened
    THEN HostClose([s EXCEPT !.cmds = Append(@, Cmd("open_stage", 0, 0, ""))])
    ELSE LET s1 == [s EXCEPT !.cmds = Append(@, Cmd("open_stage", 1, 0, "")),
                             !.layers = base]
             s2 == IF lp.given THEN InsertEach(s1, Reverse(lp.paths), unresolved) ELSE s1
             s3 == play_from_start(s2)
         IN  [s3 EXCEPT !.lfi = lfi]

\* initialize_animation without the return of line 166: the load goes on after
\* the close.
initialize_animation_no_return(s, opened, base, lp, unresolved, lfi) ==
    LET s0 == IF opened THEN [s EXCEPT !.cmds = Append(@, Cmd("open_stage", 1, 0, "")),
                                       !.layers = base]
              ELSE HostClose([s EXCEPT !.cmds = Append(@, Cmd("open_stage", 0, 0, ""))])
        s2 == IF lp.given THEN InsertEach(s0, Reverse(lp.paths), unresolved) ELSE s0
        s3 == [s2 EXCEPT !.lfi = lfi]
    IN  play_from_start(s3)

\* initialize_animation(directory_path, last_frame_index, layer_paths): opened is
\* open_stage's answer, base the sub-layers of the stage it opened, unresolved the
\* paths Layer.FindOrOpen answers None for.
initialize_animation(s, opened, base, lp, unresolved, lfi) ==
    IF ~opened
    THEN HostClose([s EXCEPT !.cmds = Append(@, Cmd("open_stage", 0, 0, ""))])
    ELSE LET s1 == [s EXCEPT !.cmds = Append(@, Cmd("open_stage", 1, 0, "")),
                             !.layers = base]
             s2 == IF lp.given THEN InsertEach(s1, Reverse(lp.paths), unresolved) ELSE s1
             s3 == [s2 EXCEPT !.lfi = lfi]
         IN  play_from_start(s3)

\* The record of one load, kept for the step that ran it.
LoadEv(kind, opened, base, lp, unresolved, lfi) ==
    [kind |-> kind, opened |-> opened, given |-> lp.given, paths |-> lp.paths,
     unresolved |-> unresolved, base |-> base, lfi |-> lfi,
     moved |-> (opened /\ time_step_index > 0 /\ lfi # last_frame_index)]

(* ------------------------------ run_loop ------------------------------ *)

\* The pass with line 144 testing > where the code tests >=.
loop_checks_gt(s, pending) ==
    LET latch   == s.timeline = "stopped" /\ ~pending
        p1      == IF latch THEN TRUE ELSE pending
        fire140 == s.timeline = "playing" /\ p1
        s1      == IF fire140 THEN play_from_start(s) ELSE s
        p2      == IF fire140 THEN FALSE ELSE p1
        fire145 == s1.tsi > s1.lfi
        s2      == IF fire145 THEN play_from_start(s1) ELSE s1
        inc     == s2.timeline = "playing"
        s3      == IF inc THEN [s2 EXCEPT !.tsi = @ + 1] ELSE s2
    IN  [s |-> s3, pending |-> p2, latch |-> latch,
         n_reset |-> Bit(fire140), n_loop |-> Bit(fire145), inc |-> inc]

\* The pass without lines 147-148: the frame index is never incremented.
loop_checks_no_inc(s, pending) ==
    LET latch   == s.timeline = "stopped" /\ ~pending
        p1      == IF latch THEN TRUE ELSE pending
        fire140 == s.timeline = "playing" /\ p1
        s1      == IF fire140 THEN play_from_start(s) ELSE s
        p2      == IF fire140 THEN FALSE ELSE p1
        fire145 == s1.tsi >= s1.lfi
        s2      == IF fire145 THEN play_from_start(s1) ELSE s1
    IN  [s |-> s2, pending |-> p2, latch |-> latch,
         n_reset |-> Bit(fire140), n_loop |-> Bit(fire145), inc |-> FALSE]

\* The pass with line 144 testing == where the code tests >=.
loop_checks_eq(s, pending) ==
    LET latch   == s.timeline = "stopped" /\ ~pending
        p1      == IF latch THEN TRUE ELSE pending
        fire140 == s.timeline = "playing" /\ p1
        s1      == IF fire140 THEN play_from_start(s) ELSE s
        p2      == IF fire140 THEN FALSE ELSE p1
        fire145 == s1.tsi = s1.lfi
        s2      == IF fire145 THEN play_from_start(s1) ELSE s1
        inc     == s2.timeline = "playing"
        s3      == IF inc THEN [s2 EXCEPT !.tsi = @ + 1] ELSE s2
    IN  [s |-> s3, pending |-> p2, latch |-> latch,
         n_reset |-> Bit(fire140), n_loop |-> Bit(fire145), inc |-> inc]

\* The pass with the restart issued as soon as the stop is seen, not deferred.
loop_checks_restart_on_stop(s, pending) ==
    LET latch   == s.timeline = "stopped" /\ ~pending
        s0      == IF latch THEN play_from_start(s) ELSE s
        p1      == IF latch THEN TRUE ELSE pending
        fire140 == s0.timeline = "playing" /\ p1
        s1      == IF fire140 THEN play_from_start(s0) ELSE s0
        p2      == IF fire140 THEN FALSE ELSE p1
        fire145 == s1.tsi >= s1.lfi
        s2      == IF fire145 THEN play_from_start(s1) ELSE s1
        inc     == s2.timeline = "playing"
        s3      == IF inc THEN [s2 EXCEPT !.tsi = @ + 1] ELSE s2
    IN  [s |-> s3, pending |-> p2, latch |-> latch,
         n_reset |-> Bit(fire140), n_loop |-> Bit(fire145), inc |-> inc]

\* The pass without line 140: the flag is cleared but nothing is restarted.
loop_checks_no_restart(s, pending) ==
    LET latch   == s.timeline = "stopped" /\ ~pending
        p1      == IF latch THEN TRUE ELSE pending
        fire140 == s.timeline = "playing" /\ p1
        p2      == IF fire140 THEN FALSE ELSE p1
        fire145 == s.tsi >= s.lfi
        s2      == IF fire145 THEN play_from_start(s) ELSE s
        inc     == s2.timeline = "playing"
        s3      == IF inc THEN [s2 EXCEPT !.tsi = @ + 1] ELSE s2
    IN  [s |-> s3, pending |-> p2, latch |-> latch,
         n_reset |-> 0, n_loop |-> Bit(fire145), inc |-> inc]

\* The pass with line 147 testing "not is_stopped()": a paused timeline counts.
loop_checks_inc_unless_stopped(s, pending) ==
    LET latch   == s.timeline = "stopped" /\ ~pending
        p1      == IF latch THEN TRUE ELSE pending
        fire140 == s.timeline = "playing" /\ p1
        s1      == IF fire140 THEN play_from_start(s) ELSE s
        p2      == IF fire140 THEN FALSE ELSE p1
        fire145 == s1.tsi >= s1.lfi
        s2      == IF fire145 THEN play_from_start(s1) ELSE s1
        inc     == s2.timeline # "stopped"
        s3      == IF inc THEN [s2 EXCEPT !.tsi = @ + 1] ELSE s2
    IN  [s |-> s3, pending |-> p2, latch |-> latch,
         n_reset |-> Bit(fire140), n_loop |-> Bit(fire145), inc |-> inc]

\* The pass without line 141: the flag is left set after the restart.
loop_checks_keep_pending(s, pending) ==
    LET latch   == s.timeline = "stopped" /\ ~pending
        p1      == IF latch THEN TRUE ELSE pending
        fire140 == s.timeline = "playing" /\ p1
        s1      == IF fire140 THEN play_from_start(s) ELSE s
        fire145 == s1.tsi >= s1.lfi
        s2      == IF fire145 THEN play_from_start(s1) ELSE s1
        inc     == s2.timeline = "playing"
        s3      == IF inc THEN [s2 EXCEPT !.tsi = @ + 1] ELSE s2
    IN  [s |-> s3, pending |-> p1, latch |-> latch,
         n_reset |-> Bit(fire140), n_loop |-> Bit(fire145), inc |-> inc]

\* Lines 137-148 of run_loop, one pass: the two reset-pending checks, the
\* loop-around check and the increment.  n_reset and n_loop count the
\* play_from_start calls of line 140 and of line 145.
loop_checks(s, pending) ==
    LET latch   == s.timeline = "stopped" /\ ~pending
        p1      == IF latch THEN TRUE ELSE pending
        fire140 == s.timeline = "playing" /\ p1
        s1      == IF fire140 THEN play_from_start(s) ELSE s
        p2      == IF fire140 THEN FALSE ELSE p1
        fire145 == s1.tsi >= s1.lfi
        s2      == IF fire145 THEN play_from_start(s1) ELSE s1
        inc     == s2.timeline = "playing"
        s3      == IF inc THEN [s2 EXCEPT !.tsi = @ + 1] ELSE s2
    IN  [s |-> s3, pending |-> p2, latch |-> latch,
         n_reset |-> Bit(fire140), n_loop |-> Bit(fire145), inc |-> inc]

\* Moves the origin of the clock to `origin`; the code reads only differences
\* of time.time() values, so the clock is kept relative to the latest sleep end.
Rebase(t, origin) == t - origin

\* Writes the record s back to the variables it was read from.
Store(s) ==
    /\ time_step_index' = s.tsi
    /\ last_frame_index' = s.lfi
    /\ timeline' = s.timeline
    /\ end_time' = s.end_time
    /\ play_range' = s.range
    /\ running' = s.running
    /\ closes' = s.closes
    /\ subLayerPaths' = s.layers
    /\ cmds' = s.cmds

(* ------------------------------- actions ------------------------------ *)

Init ==
    /\ pc = "main"
    /\ time_step_index = 0
    /\ last_frame_index \in Frames
    /\ is_reset_pending = FALSE
    /\ dt = 0
    /\ last_sleep_end = 0
    /\ now = 0
    /\ running = TRUE
    /\ timeline = "stopped"
    /\ commit \in BOOLEAN
    /\ end_time = <<0, TimecodeBase>>
    /\ play_range = <<0, 0>>
    /\ subLayerPaths = << >>
    /\ closes = 0
    /\ cmds = << >>
    /\ ev = NoEv
    /\ cyc = NoCyc
    /\ stop_seen = FALSE
    /\ stop_restarts = 0
    /\ playthrough = NoPlaythrough

\* One call of initialize_animation on the current state, with the host's
\* answers drawn: the stage opens or not, and if it does, its own sub-layers,
\* the layer list given and the paths that do not resolve.
Load(kind, lfi) ==
    \/ /\ Store(initialize_animation(Cur, FALSE, << >>, [given |-> FALSE, paths |-> << >>],
                                     {}, lfi))
       /\ ev' = LoadEv(kind, FALSE, << >>, [given |-> FALSE, paths |-> << >>], {}, lfi)
    \/ \E base \in BaseLayers, lp \in LayerInputs :
         \E unresolved \in SUBSET Range(lp.paths) :
            /\ Store(initialize_animation(Cur, TRUE, base, lp, unresolved, lfi))
            /\ ev' = LoadEv(kind, TRUE, base, lp, unresolved, lfi)

\* main, lines 206-212, with usd_directory configured: the initial load, with
\* the configuration's last_frame_index (the value __init__ read at line 109).
MainLoad ==
    /\ pc = "main"
    /\ Load("startup", last_frame_index)
    /\ pc' = "run_loop"
    /\ UNCHANGED <<is_reset_pending, dt, last_sleep_end, now, commit, cyc,
                   stop_seen, stop_restarts, playthrough>>

\* main, line 206, with no usd_directory: nothing is loaded.
MainSkip ==
    /\ pc = "main"
    /\ pc' = "run_loop"
    /\ UNCHANGED <<time_step_index, last_frame_index, is_reset_pending, dt, last_sleep_end,
                   now, running, timeline, commit, end_time, play_range, subLayerPaths,
                   closes, cmds, ev, cyc, stop_seen, stop_restarts, playthrough>>

\* run_loop, lines 125-128: main calls it whatever the initial load did.
RunLoopEnter ==
    /\ pc = "run_loop"
    /\ LET rate == SteadyRateInit(RATE_HZ, now)
       IN  /\ dt' = rate.dt
           /\ last_sleep_end' = rate.last_sleep_end
    /\ is_reset_pending' = FALSE
    /\ Store(play_from_start(Cur))
    /\ playthrough' = [from |-> "initial", renders |-> 0]
    /\ pc' = "while"
    /\ UNCHANGED <<now, commit, ev, cyc, stop_seen, stop_restarts>>

\* Line 130: is_running() answers True and the body is entered.
LoopTest ==
    /\ pc = "while"
    /\ running
    /\ pc' = "render"
    /\ cmds' = << >>
    /\ ev' = NoEv
    /\ cyc' = [NoCyc EXCEPT !.run0 = running,
                            !.over0 = time_step_index > last_frame_index,
                            !.closed0 = closes >= 1]
    /\ UNCHANGED <<time_step_index, last_frame_index, is_reset_pending, dt, last_sleep_end,
                   now, running, timeline, commit, end_time, play_range, subLayerPaths,
                   closes, stop_seen, stop_restarts, playthrough>>

\* on_event, lines 192-201: during the render call the host pops a load event
\* off the message bus and the handler runs initialize_animation.  The host
\* may pop any number of events in one render call, whatever the earlier ones
\* did, a close included: each handler returns to the host (EventReturn)
\* before the next event is popped.
LoadEvent ==
    /\ pc = "render"
    /\ ev.kind = "none"
    /\ \E lfi \in Frames : Load("event", lfi)
    /\ ev'.opened \/ closes + 1 < MaxCloses
    /\ cyc' = [cyc EXCEPT !.ev_play = @ \/ (cyc.over0 /\ ev'.opened)]
    /\ playthrough' = NoPlaythrough
    /\ UNCHANGED <<pc, is_reset_pending, dt, last_sleep_end, now, commit,
                   stop_seen, stop_restarts>>

\* on_event returns (line 201) and the host update goes on inside the same
\* render call: the record of the handler's load and calls is dropped, what
\* it did to the player and the host stays.
EventReturn ==
    /\ pc = "render"
    /\ ev.kind = "event"
    /\ ev' = NoEv
    /\ cmds' = << >>
    /\ UNCHANGED <<pc, time_step_index, last_frame_index, is_reset_pending, dt,
                   last_sleep_end, now, running, timeline, commit, end_time, play_range,
                   subLayerPaths, closes, cyc, stop_seen, stop_restarts, playthrough>>

\* Line 132: the render call returns.  The host update took d ticks, left the
\* timeline in a status st of `statuses`, and may have been told to quit.
RenderTo(statuses) ==
    /\ pc = "render"
    /\ \E d \in 0..MaxWork, st \in statuses, quit \in BOOLEAN :
         /\ now' = now + d
         /\ timeline' = st
         /\ running' = (running /\ ~quit)
         /\ playthrough' = IF playthrough.from # "void" /\ st = "playing"
                           THEN [playthrough EXCEPT
                                    !.renders = IF @ <= MaxFrame + 1 THEN @ + 1 ELSE @]
                           ELSE NoPlaythrough
    /\ cmds' = <<Cmd("render", 0, 0, "")>>
    /\ ev' = NoEv
    /\ pc' = "sleep"
    /\ UNCHANGED <<time_step_index, last_frame_index, is_reset_pending, dt, last_sleep_end,
                   commit, end_time, play_range, subLayerPaths, closes, cyc,
                   stop_seen, stop_restarts>>

\* Line 132 with a host whose user may play, pause or stop the timeline.
Render == RenderTo(Status)

\* Lines 135-148: rate.sleep(), the checks and the increment.
Step ==
    /\ pc = "sleep"
    /\ LET r  == SteadyRateSleep([dt |-> dt, last_sleep_end |-> last_sleep_end], now)
           s0 == [Cur EXCEPT !.cmds = <<Cmd("sleep", r.slept, 0, "")>>]
           c  == loop_checks(s0, is_reset_pending)
       IN  /\ Store(c.s)
           /\ is_reset_pending' = c.pending
           /\ dt' = r.rate.dt
           /\ last_sleep_end' = Rebase(r.rate.last_sleep_end, r.wake)
           /\ now' = Rebase(r.wake, r.wake)
           /\ cyc' = [ran |-> TRUE, run0 |-> cyc.run0, over0 |-> cyc.over0,
                      ev_play |-> cyc.ev_play,
                      pending0 |-> is_reset_pending, tsi0 |-> time_step_index,
                      lfi0 |-> last_frame_index, status0 |-> timeline,
                      n_reset |-> c.n_reset, n_loop |-> c.n_loop, inc |-> c.inc,
                      work |-> now - last_sleep_end, slept |-> r.slept,
                      elapsed |-> now, interval |-> r.wake,
                      from |-> playthrough.from, len |-> playthrough.renders,
                      closed0 |-> cyc.closed0]
           /\ playthrough' = IF c.n_loop = 1 /\ timeline = "playing"
                             THEN [from |-> "loop", renders |-> 0]
                             ELSE IF c.n_loop + c.n_reset >= 1 THEN NoPlaythrough
                             ELSE playthrough
           /\ stop_seen' = (stop_seen \/ c.latch)
           /\ stop_restarts' = IF c.latch THEN 0
                               ELSE IF c.n_reset = 1 /\ stop_restarts < 2
                                    THEN stop_restarts + 1 ELSE stop_restarts
    /\ ev' = NoEv
    /\ pc' = "while"
    /\ UNCHANGED commit

\* The loop left whatever is_running() answers.
Exit_unguarded ==
    /\ pc = "while"
    /\ Store(HostClose(Cur))
    /\ ev' = NoEv
    /\ cyc' = NoCyc
    /\ playthrough' = NoPlaythrough
    /\ pc' = "done"
    /\ UNCHANGED <<is_reset_pending, dt, last_sleep_end, now, commit,
                   stop_seen, stop_restarts>>

\* Lines 130 and 151: is_running() answers False, the loop ends and the
\* application is closed.
Exit ==
    /\ pc = "while"
    /\ ~running
    /\ Store(HostClose(Cur))
    /\ ev' = NoEv
    /\ cyc' = NoCyc
    /\ playthrough' = NoPlaythrough
    /\ pc' = "done"
    /\ UNCHANGED <<is_reset_pending, dt, last_sleep_end, now, commit,
                   stop_seen, stop_restarts>>

Next ==
    \/ MainLoad
    \/ MainSkip
    \/ RunLoopEnter
    \/ LoopTest
    \/ LoadEvent
    \/ EventReturn
    \/ Render
    \/ Step
    \/ Exit

Spec == Init /\ [][Next]_vars

\* The scenario of a configuration with a positive last_frame_index and no
\* usd_directory, no load events, and a host that keeps its timeline playing.
InitLive == Init /\ last_frame_index >= 1

\* Line 132 with a timeline that is playing after every host update.
RenderLive == RenderTo({"playing"})

NextLive ==
    \/ MainSkip
    \/ RunLoopEnter
    \/ LoopTest
    \/ RenderLive
    \/ Step
    \/ Exit

\* The loop is one thread that is never suspended for good: every call it
\* makes returns, so its next step is always taken.
SpecLive == InitLive /\ [][NextLive]_vars /\ WF_vars(NextLive)

(* ------------------------------- claims ------------------------------- *)

\* A pass through lines 135-148 has just ended.
CycleDone == pc = "while" /\ cyc.ran

\* The play_from_start calls lines 140 and 145 made in the latest pass.
Restarts == cyc.n_reset + cyc.n_loop

\* C1 as stated: on a cycle whose frame index is >= last_frame_index when the
\* checks run, exactly one play-from-start command is issued, whatever the
\* reset-pending flag and the timeline status.
C1_ExactlyOneRestart ==
    (CycleDone /\ cyc.tsi0 >= cyc.lfi0) => Restarts = 1

\* C1 amended: on such a cycle the loop restarts at least once, and exactly
\* once when last_frame_index >= 1; it issues two play-from-start commands
\* exactly when last_frame_index is 0, a reset is pending and the timeline is
\* playing (lines 140 and 145 both fire).  The frame counter is set to 0 by the
\* restart and is 1 at the end of the cycle only if line 148 incremented it.
C1_RestartOnLastFrame ==
    (CycleDone /\ cyc.tsi0 >= cyc.lfi0) =>
        /\ Restarts >= 1
        /\ (cyc.lfi0 >= 1 => Restarts = 1)
        /\ (Restarts = 2 <=> (cyc.lfi0 = 0 /\ cyc.pending0 /\ cyc.status0 = "playing"))
        /\ time_step_index = Bit(cyc.inc)

\* C1 witness: the timeline is seen stopped on the very cycle the last frame
\* (>= 1) is reached, and the loop restarts once.
C1_Witness ==
    /\ CycleDone
    /\ cyc.tsi0 >= cyc.lfi0
    /\ cyc.lfi0 >= 1
    /\ cyc.status0 = "stopped"
    /\ Restarts = 1

\* C2: a stop latched into the reset-pending flag is answered by exactly one
\* play-from-start of line 140: none while the flag is set and the timeline is
\* not playing, one on the first cycle that sees it playing, which clears the
\* flag, and none afterwards until another stop is latched.
C2_OneRestartPerStop ==
    /\ stop_seen => stop_restarts = (IF is_reset_pending THEN 0 ELSE 1)
    /\ ~stop_seen => (stop_restarts = 0 /\ ~is_reset_pending)
    /\ CycleDone =>
          /\ (cyc.status0 = "stopped" => (cyc.n_reset = 0 /\ is_reset_pending))
          /\ ((cyc.pending0 /\ cyc.status0 = "playing") =>
                (cyc.n_reset = 1 /\ ~is_reset_pending))
          /\ (~cyc.pending0 => cyc.n_reset = 0)

\* C2 witness: after a stop and the restart that answered it, a further cycle
\* with the timeline playing issues no restart of line 140.
C2_Witness ==
    /\ CycleDone
    /\ stop_seen
    /\ stop_restarts = 1
    /\ ~cyc.pending0
    /\ cyc.status0 = "playing"
    /\ cyc.n_reset = 0

\* C3: if the frame index is above last_frame_index when a cycle begins, a
\* play-from-start command is issued during that cycle, by the loop's checks
\* or by a load event popped in its render call.
C3_NoCycleAboveLastFrame ==
    (CycleDone /\ cyc.over0) => (cyc.ev_play \/ Restarts >= 1)

\* C3 witness: a cycle began with the frame index above last_frame_index and
\* line 145 restarted.
C3_Witness == CycleDone /\ cyc.over0 /\ ~cyc.ev_play /\ cyc.n_loop = 1

\* The calls play_from_start makes with last_frame_index = lfi.
PlayCmds(lfi) == << Cmd("set_end_time", lfi, TimecodeBase, ""), Cmd("play", 0, lfi, "") >>

\* The latest step called play_from_start.
Played == \E i \in 1..Len(cmds) : cmds[i].op \in {"play", "set_end_time"}

\* C4: every play_from_start issues set-end-time with last_frame_index / 60
\* and then play(0, last_frame_index), in this order and next to each other,
\* leaves the host timeline with that end time and range, sets the frame
\* counter to 0 (line 148 alone may make it 1 before the cycle ends), and
\* leaves last_frame_index unchanged.
C4_PlayFromStart ==
    /\ \A i \in 1..Len(cmds) :
          /\ cmds[i].op = "play" =>
                (i > 1 /\ SubSeq(cmds, i - 1, i) = PlayCmds(last_frame_index))
          /\ cmds[i].op = "set_end_time" =>
                (i < Len(cmds) /\ SubSeq(cmds, i, i + 1) = PlayCmds(last_frame_index))
    /\ Played =>
          /\ end_time = <<last_frame_index, TimecodeBase>>
          /\ play_range = <<0, last_frame_index>>
          /\ time_step_index = (IF CycleDone THEN Bit(cyc.inc) ELSE 0)
    /\ CycleDone => last_frame_index = cyc.lfi0

\* C4 witness: play_from_start was called with a frame index above 0 and a
\* last_frame_index above 0.
C4_Witness ==
    /\ CycleDone
    /\ Played
    /\ cyc.tsi0 > 0
    /\ cyc.lfi0 > 0

\* C5 as stated: the loop ends only after is_running() answered False and
\* then closes the application, and once the loop runs no close is issued
\* while the host still reports running (no error-triggered shutdown inside
\* the loop).
C5_CloseOnlyWhenNotRunning ==
    /\ pc = "done" => (cmds = <<Cmd("close", 0, 0, "")>> /\ ~running)
    /\ pc \in {"render", "sleep"} => cyc.run0
    /\ pc \in {"while", "render", "sleep", "done"} =>
          \A i \in 1..Len(cmds) : cmds[i].op = "close" => cmds[i].a = 0

\* C5 amended: the loop ends only after is_running() answered False; every
\* render, sleep and check of the loop follows a test that answered True; once
\* the test answers False the loop issues close and nothing else, and the loop
\* itself never issues close while the host reports running.  The only close
\* issued to a running host is initialize_animation's, right after a main
\* scene failed to open.
C5_LoopExit ==
    /\ pc = "done" => (cmds = <<Cmd("close", 0, 0, "")>> /\ ~running /\ ~ENABLED Next)
    /\ (pc \in {"render", "sleep"} \/ CycleDone) => cyc.run0
    /\ \A i \in 1..Len(cmds) :
          (cmds[i].op = "close" /\ cmds[i].a = 1) =>
              /\ ev.kind \in {"startup", "event"}
              /\ ~ev.opened
              /\ i > 1
              /\ cmds[i - 1] = Cmd("open_stage", 0, 0, "")

\* C5 witness: the loop has ended and closed the application, which
\* initialize_animation had already closed once.
C5_Witness == pc = "done" /\ closes = 2 /\ cmds = <<Cmd("close", 0, 0, "")>>

\* main's initial load could not open the main scene.
StartupFailed == ev.kind = "startup" /\ ~ev.opened

\* C6: when the main scene cannot be opened at startup the application is
\* closed and the loop is never entered: main does not go on into run_loop,
\* and nothing is rendered.
C6_LoopNeverEntered ==
    StartupFailed => (pc = "run_loop" /\ closes = 1 /\ ~running)

\* The paths of the latest load that resolve, in input order.
Resolves(p) == p \notin ev.unresolved

Resolved == SelectSeq(ev.paths, Resolves)

\* C7: after a load that opened its main scene, the root layer's sub-layer
\* list is the resolvable paths in input order followed by the sub-layers the
\* opened stage had; unresolvable paths are skipped.
C7_LayerOrder ==
    ev.opened => subLayerPaths = Resolved \o ev.base

\* C7 witness: a load event with the list a, b, c of which b does not resolve,
\* on a stage that has a sub-layer of its own.
C7_Witness ==
    /\ ev.kind = "event"
    /\ ev.opened
    /\ ev.paths = <<"a", "b", "c">>
    /\ ev.unresolved = {"b"}
    /\ ev.base = <<"base">>
    /\ subLayerPaths = <<"a", "c", "base">>

\* C8: a load event whose main scene opens runs open_stage, then the layer
\* calls, then sets last_frame_index to the event's value, then calls
\* play_from_start with the new value, leaving the frame index 0.
C8_LoadEventOrder ==
    (ev.kind = "event" /\ ev.opened) =>
        /\ Len(cmds) >= 3
        /\ cmds[1] = Cmd("open_stage", 1, 0, "")
        /\ SubSeq(cmds, Len(cmds) - 1, Len(cmds)) = PlayCmds(ev.lfi)
        /\ \A i \in 2..(Len(cmds) - 2) : cmds[i].op \in {"find_or_open", "insert"}
        /\ Cardinality({i \in 1..Len(cmds) : cmds[i].op = "insert"}) = Len(Resolved)
        /\ last_frame_index = ev.lfi
        /\ end_time = <<ev.lfi, TimecodeBase>>
        /\ play_range = <<0, ev.lfi>>
        /\ time_step_index = 0

\* C8 witness: a load event with layers arrived at a frame index above 0 and
\* changed last_frame_index.
C8_Witness ==
    /\ ev.kind = "event"
    /\ ev.opened
    /\ ev.moved
    /\ Len(Resolved) >= 1

Max0(x) == IF x > 0 THEN x ELSE 0

\* C9: every sleep() blocks for max(0, dt - time since the previous sleep
\* end), never a negative time, sets last_sleep_end to the time at which it
\* returns whether it slept or not, and leaves dt as constructed.
C9_SteadyRateSleep ==
    /\ CycleDone =>
          /\ cyc.slept = Max0(dt - cyc.work)
          /\ cyc.slept >= 0
          /\ cmds[1] = Cmd("sleep", cyc.slept, 0, "")
          /\ last_sleep_end = now
    /\ pc \notin {"main", "run_loop"} => dt = SteadyRateInit(RATE_HZ, 0).dt

\* C9 witness: a cycle whose work took longer than the period, after which
\* sleep() did not sleep.
C9_Witness == CycleDone /\ cyc.work > dt /\ cyc.slept = 0

\* C10: with a positive last_frame_index, no load events and a timeline that
\* keeps playing, the loop restarts again and again, until the host reports
\* it is no longer running and the loop ends.
C10_RestartsForever ==
    []<>(CycleDone /\ Restarts >= 1) \/ <>(pc = "done")

\* C10 witness: the frame index has run up to a last_frame_index >= 2 with
\* the timeline playing, and line 145 restarted.
C10_Witness ==
    /\ CycleDone
    /\ cyc.lfi0 >= 2
    /\ cyc.tsi0 = cyc.lfi0
    /\ cyc.status0 = "playing"
    /\ cyc.n_loop = 1

\* The timeline was reported stopped while no reset was pending.
StopLatched == CycleDone /\ cyc.status0 = "stopped" /\ ~cyc.pending0

\* C11 as stated: on the cycle that sees the timeline stopped with no reset
\* pending, the flag becomes true and nothing else happens: no play-from-start
\* command in that cycle and the frame index unchanged.
C11_StopOnlySetsFlag ==
    StopLatched =>
        /\ is_reset_pending
        /\ Restarts = 0
        /\ time_step_index = cyc.tsi0

\* C11 amended: on that cycle the flag becomes true and the reset-pending
\* check issues nothing.  While the frame index is below last_frame_index
\* that is all: only sleep was called, the frame index and the timeline are
\* unchanged.  When the frame index is >= last_frame_index the loop-around
\* check of line 145 restarts in that same cycle.
C11_StopDefersRestart ==
    StopLatched =>
        /\ is_reset_pending
        /\ cyc.n_reset = 0
        /\ cyc.tsi0 < cyc.lfi0 =>
              /\ Len(cmds) = 1
              /\ cmds[1].op = "sleep"
              /\ time_step_index = cyc.tsi0
              /\ timeline = "stopped"
              /\ ~cyc.inc
        /\ cyc.tsi0 >= cyc.lfi0 =>
              /\ cyc.n_loop = 1
              /\ SubSeq(cmds, 2, 3) = PlayCmds(last_frame_index)

\* C11 witness: the stop is seen in the middle of a playthrough.
C11_Witness ==
    /\ StopLatched
    /\ cyc.tsi0 >= 1
    /\ cyc.tsi0 < cyc.lfi0
    /\ time_step_index = cyc.tsi0
    /\ is_reset_pending

\* C12: on a cycle that sees the timeline playing while a reset is pending,
\* the loop issues play-from-start first thing after the sleep, clears the
\* flag and resets the frame counter: whatever it was, it is 0 plus the
\* increment of line 148 when the cycle ends.
C12_PendingPlayingRestarts ==
    (CycleDone /\ cyc.pending0 /\ cyc.status0 = "playing") =>
        /\ cyc.n_reset = 1
        /\ Len(cmds) >= 3
        /\ SubSeq(cmds, 2, 3) = PlayCmds(last_frame_index)
        /\ ~is_reset_pending
        /\ time_step_index = Bit(cyc.inc)
        /\ time_step_index <= 1

\* C12 witness: playing is seen again after a stop in mid-playthrough.
C12_Witness ==
    /\ CycleDone
    /\ cyc.pending0
    /\ cyc.status0 = "playing"
    /\ cyc.tsi0 >= 1
    /\ cyc.n_reset = 1
    /\ ~is_reset_pending
    /\ time_step_index = 1

\* The frame index the increment of line 148 starts from.
BeforeInc == IF Restarts >= 1 THEN 0 ELSE cyc.tsi0

\* C13 as stated: the frame index goes up at most once per cycle, by 1, only
\* when the host reports playing, and never on a cycle where the timeline was
\* reported stopped.
C13_NoIncrementWhenStopped ==
    CycleDone =>
        /\ time_step_index = BeforeInc + Bit(cyc.inc)
        /\ cyc.inc => timeline = "playing"
        /\ cyc.status0 = "stopped" => ~cyc.inc

\* C13 amended: the frame index goes up at most once per cycle, by 1, and
\* exactly when is_playing() answers True at line 147.  On a cycle that saw
\* the timeline stopped at line 137 it is not incremented, unless line 145
\* restarted in that cycle and the host applied play() at once.
C13_IncrementOnlyWhenPlaying ==
    CycleDone =>
        /\ time_step_index = BeforeInc + Bit(cyc.inc)
        /\ cyc.inc <=> timeline = "playing"
        /\ (cyc.status0 # "playing" /\ Restarts = 0) => ~cyc.inc
        /\ (cyc.status0 = "stopped" /\ cyc.inc) => (commit /\ cyc.n_loop = 1)

\* C13 witness: a cycle with the timeline playing and no restart moved the
\* frame index up by one.
C13_Witness ==
    /\ CycleDone
    /\ cyc.status0 = "playing"
    /\ Restarts = 0
    /\ cyc.tsi0 >= 1
    /\ time_step_index = cyc.tsi0 + 1

\* The larger of two numbers.
Max(x, y) == IF x >= y THEN x ELSE y

\* C14: the clock reads 0 at the end of every sleep(), so cyc.elapsed is the
\* work time of the cycle and cyc.interval the time between two consecutive
\* sleep ends.  The interval is max(dt, work): exactly dt when the work fits in
\* the period; an overrun cycle sleeps zero, lasts as long as its work, and
\* leaves nothing behind for the cycles after it.
C14_SleepInterval ==
    /\ pc \in {"while", "render"} /\ cyc.run0 => now = 0 /\ last_sleep_end = 0
    /\ CycleDone =>
          /\ cyc.interval = Max(dt, cyc.elapsed)
          /\ cyc.interval = cyc.elapsed + cyc.slept
          /\ cyc.elapsed <= dt => cyc.interval = dt
          /\ cyc.elapsed > dt => cyc.slept = 0 /\ cyc.interval = cyc.elapsed

\* C14 witness: a cycle whose work fitted in the period, sleeping the rest.
C14_Witness ==
    /\ CycleDone
    /\ cyc.elapsed >= 1
    /\ cyc.elapsed < dt
    /\ cyc.slept = dt - cyc.elapsed
    /\ cyc.interval = dt

\* The controller and timeline state a call leaves, without the call log.
Effect(s) == [s EXCEPT !.cmds = << >>]

\* C15: play_from_start called twice in a row leaves the state one call
\* leaves: frame index 0, last_frame_index unchanged, the same end time, play
\* range 0..last_frame_index and timeline status; only the commands are
\* issued twice.  So a cycle in which lines 140 and 145 both fire ends like a
\* cycle with one restart.
C15_PlayFromStartIdempotent ==
    /\ LET once  == play_from_start(Cur)
           twice == play_from_start(once)
       IN  /\ Effect(twice) = Effect(once)
           /\ once.tsi = 0
           /\ once.lfi = last_frame_index
           /\ twice.cmds = once.cmds \o PlayCmds(last_frame_index)
    /\ (CycleDone /\ Restarts >= 1) =>
          /\ time_step_index = Bit(cyc.inc)
          /\ last_frame_index = cyc.lfi0
          /\ end_time = <<last_frame_index, TimecodeBase>>
          /\ play_range = <<0, last_frame_index>>
          /\ timeline = (IF commit THEN "playing" ELSE cyc.status0)
          /\ SubSeq(cmds, 2, Len(cmds)) =
                IF Restarts = 2
                THEN PlayCmds(last_frame_index) \o PlayCmds(last_frame_index)
                ELSE PlayCmds(last_frame_index)

\* C15 witness: a cycle in which both restarts fired.
C15_Witness ==
    /\ CycleDone
    /\ Restarts = 2
    /\ Len(cmds) = 5
    /\ time_step_index = 1
    /\ play_range = <<0, last_frame_index>>

\* A load event arrives inside render and its main scene fails to open.
FailedLoadEvent == pc = "render" /\ pc' = "render" /\ ev'.kind = "event" /\ ~ev'.opened

\* C16: a load event whose main scene fails to open closes the application
\* and changes nothing else: last_frame_index, the frame index, the sub-layer
\* list, the timeline and the loop's own state are as before, and the only
\* calls are the failed open_stage and the close.
C16_FailedLoadOnlyCloses ==
    [][FailedLoadEvent =>
          /\ ~running'
          /\ closes' = closes + 1
          /\ cmds' = << Cmd("open_stage", 0, 0, ""), Cmd("close", Bit(running), 0, "") >>
          /\ last_frame_index' = last_frame_index
          /\ time_step_index' = time_step_index
          /\ subLayerPaths' = subLayerPaths
          /\ end_time' = end_time
          /\ play_range' = play_range
          /\ timeline' = timeline
          /\ is_reset_pending' = is_reset_pending
          /\ pc' = pc
          /\ cyc'.ev_play = cyc.ev_play]_vars

\* C16 witness: the failed load event came in mid-playthrough, with layers
\* composed, and left them as they were.
C16_Witness ==
    /\ pc = "render"
    /\ ev.kind = "event"
    /\ ~ev.opened
    /\ ~running
    /\ closes = 1
    /\ time_step_index >= 1
    /\ last_frame_index >= 1
    /\ end_time = <<last_frame_index, TimecodeBase>>
    /\ Len(subLayerPaths) >= 2
    /\ Len(cmds) = 2

\* C17: with last_frame_index >= 1 the checks of one cycle issue at most one
\* play-from-start: when line 140 fires it leaves the frame index at 0, below
\* last_frame_index, so line 145 does not fire.  Both fire in one cycle only
\* when last_frame_index <= 0.
C17_AtMostOneRestart ==
    CycleDone =>
        /\ cyc.lfi0 >= 1 => Restarts <= 1
        /\ cyc.lfi0 >= 1 => Len(cmds) <= 3
        /\ Restarts = 2 => cyc.lfi0 <= 0
        /\ (cyc.n_reset = 1 /\ cyc.lfi0 >= 1) => cyc.n_loop = 0

\* C17 witness: the reset-pending restart fired with a positive
\* last_frame_index, and the loop-around check of the same cycle did not.
C17_Witness ==
    /\ CycleDone
    /\ cyc.lfi0 >= 1
    /\ cyc.n_reset = 1
    /\ cyc.n_loop = 0
    /\ Len(cmds) = 3

\* C18: whenever the loop tests is_running(), the frame index is between 0
\* and max(last_frame_index, 1).
C18_FrameIndexBounds ==
    pc = "while" =>
        /\ time_step_index >= 0
        /\ time_step_index <= Max(last_frame_index, 1)

\* C18 witness: with last_frame_index 0 the loop test is reached with the
\* frame index at 1, above last_frame_index.
C18_Witness ==
    /\ CycleDone
    /\ last_frame_index = 0
    /\ time_step_index = 1

\* A loop-around restart ended a playthrough in which the timeline was playing
\* after every render and no load event came in.
PlaythroughDone ==
    CycleDone /\ cyc.n_loop = 1 /\ cyc.from # "void" /\ cyc.lfi0 >= 1

\* C19 as stated: with last_frame_index = L >= 1, no load events and the
\* timeline playing on every cycle, the number of render calls between the
\* initial play-from-start and the first loop-around restart, and between any
\* two consecutive loop-around restarts, is L.
C19_EqualPlaythroughs == PlaythroughDone => cyc.len = cyc.lfi0

\* What the loop does instead: L + 1 render calls before the first
\* loop-around restart, L between any two later ones.
C19_FirstPlaythroughLonger ==
    PlaythroughDone =>
        /\ cyc.from = "initial" => cyc.len = cyc.lfi0 + 1
        /\ cyc.from = "loop" => cyc.len = cyc.lfi0

\* A later playthrough, of L render calls, was completed.
C19_LaterPlaythrough == PlaythroughDone /\ cyc.from = "loop" /\ cyc.len = cyc.lfi0

\* The number of close commands among the calls of the latest step from
\* position i on.
RECURSIVE ClosesFrom(_)
ClosesFrom(i) ==
    IF i > Len(cmds) THEN 0
    ELSE Bit(cmds[i].op = "close") + ClosesFrom(i + 1)

\* The host had been told to close before the i-th call of the latest step.
ClosedBefore(i) == closes - ClosesFrom(i) >= 1

\* C20 as stated: close is issued at most once, and no set_end_time or play
\* is issued, and no render call entered, after a close.
C20_NothingAfterClose ==
    /\ closes <= 1
    /\ \A i \in 1..Len(cmds) :
          cmds[i].op \in {"set_end_time", "play"} => ~ClosedBefore(i)
    /\ pc \in {"render", "sleep"} => ~cyc.closed0

\* The part of C20 the loop test of line 130 does give: no render call is
\* entered after a close.
C20_NoRenderAfterClose ==
    /\ closes >= 1 => ~running
    /\ pc \in {"render", "sleep"} => cyc.run0 /\ ~cyc.closed0

==========================================================================
